---- MODULE Spec2Model ----
(***************************************************************************)
(* Write path of the graph database: the GraphQL mutation resolver         *)
(* (package resolve, mutationResolver.resolve and its two sub-pipelines)   *)
(* and the Kafka change-data-capture consumer (package edgraph,            *)
(* Consumer.ConsumeClaim).                                                 *)
(*                                                                         *)
(* Representation.                                                         *)
(*   []byte data     a sequence of string tokens, <<>> for empty/nil       *)
(*   error           a record tagged "nil", "plain" (a non-GraphQL error), *)
(*                   "gql" (one GraphQL error) or "list" (x.GqlErrorList)  *)
(*   GraphQL error   [msg, path, loc]: msg is the chain of wrap prefixes   *)
(*                   ending in the cause, path a sequence of field names,  *)
(*                   loc whether a source location is attached             *)
(***************************************************************************)
EXTENDS Integers, Sequences, FiniteSets, TLC

VARIABLES
    fields,     \* the mutation fields of the operation, in document order
    nextField,  \* index of the next field the host will resolve
    stopped,    \* the host has stopped the batch after a failed field
    results,    \* per attempted field: what resolve returned
    inner,      \* per attempted field: res as the kind's sub-pipeline left it
    calls,      \* log of collaborator calls: [field, op, err], in call order
    topic,      \* the inbound partition: message values, offset 1 first
    committed,  \* the consumer group's committed offset (last consumed)
    marked,     \* offsets session.MarkMessage has been called on
    session,    \* number of ConsumeClaim calls started so far
    cpc,        \* position of the running ConsumeClaim call, "idle" if none
    cur,        \* offset of the message the claim loop is at
    list,       \* the KVList unmarshalled from the current message
    setIdx,     \* index of the next record of list to hand to loader.Set
    loader,     \* the loader of the current iteration
    nLoaders,   \* number of loaders State.Pstore.NewLoader has handed out
    store,      \* local storage: key -> value, 0 where the key is absent
    finished,   \* history: [off, fed, id] of every loader whose Finish returned
    callLog,    \* history: what the running ConsumeClaim call did so far
    sourceBrokers, \* Config.KafkaOpt.SourceBrokers
    spc,        \* position of setupKafkaSource
    sTries,     \* outcome of each sarama.NewConsumerGroup attempt, TRUE = created
    dpc,        \* position of the driver goroutine of setupKafkaSource
    ready,      \* the channel consumer.ready: "open" or "closed"
    nConsumes,  \* number of client.Consume calls made by the driver loop
    nSetups,    \* number of Consumer.Setup calls that returned
    fault,      \* "none", or the statement that panicked and ended the process
    targetBrokers, \* Config.KafkaOpt.TargetBrokers
    tpc,        \* position of setupKafkaTarget
    tTries,     \* outcome of each sarama.NewSyncProducer attempt
    subscr,     \* the Subscribe goroutine: "none", "running" or "ended"
    cbLog,      \* history: per batch delivered to cb, [batch, marshalErr, sendErr]
    sent        \* the messages handed to producer.SendMessage, in order

rvars == <<fields, nextField, stopped, results, inner, calls>>

cvars == <<topic, committed, marked, session, cpc, cur, list, setIdx, loader,
           nLoaders, store, finished, callLog>>

svars == <<sourceBrokers, spc, sTries, dpc, ready, nConsumes, nSetups, fault,
           targetBrokers, tpc, tTries, subscr, cbLog, sent>>

vars == <<rvars, cvars, svars>>

----------------------------------------------------------------------------
(* Bounds *)

MaxFields == 3

MaxMsgs == 2

MaxSessions == 2

MaxConsumes == 3

MaxBatches == 2

----------------------------------------------------------------------------
(* Errors *)

Nil == [tag |-> "nil"]

Plain(m) == [tag |-> "plain", msg |-> m]

Gql(m, p, l) == [tag |-> "gql", e |-> [msg |-> m, path |-> p, loc |-> l]]

GqlList(es) == [tag |-> "list", errs |-> es]

\* gqlerror.Errorf(format): a GraphQL error with neither path nor location.
Errorf(m) == Gql(<<m>>, <<>>, FALSE)

WrapMsg(prefix, e) == [e EXCEPT !.msg = <<prefix>> \o e.msg]

\* schema.GQLWrapf(err, format, args): nil stays nil; a GraphQL error keeps
\* its path and locations and gets the message prefixed; a list is wrapped
\* element by element; anything else is wrapped as a plain error.
GQLWrapf(err, prefix) ==
    CASE err.tag = "nil"   -> Nil
      [] err.tag = "plain" -> Plain(<<prefix>> \o err.msg)
      [] err.tag = "gql"   -> [tag |-> "gql", e |-> WrapMsg(prefix, err.e)]
      [] err.tag = "list"  ->
            GqlList([i \in 1..Len(err.errs) |-> WrapMsg(prefix, err.errs[i])])

\* schema.GQLWrapLocationf(err, loc, format, args): as GQLWrapf, and the
\* resulting GraphQL error carries the given source location.
GQLWrapLocationf(err, prefix) ==
    CASE err.tag = "nil"   -> Nil
      [] err.tag = "plain" -> Gql(<<prefix>> \o err.msg, <<>>, TRUE)
      [] err.tag = "gql"   ->
            [tag |-> "gql", e |-> [WrapMsg(prefix, err.e) EXCEPT !.loc = TRUE]]
      [] err.tag = "list"  ->
            GqlList([i \in 1..Len(err.errs) |->
                        [WrapMsg(prefix, err.errs[i]) EXCEPT !.loc = TRUE]])

\* schema.AsGQLErrors(err): the error as a list of GraphQL errors.
AsGQLErrors(err) ==
    CASE err.tag = "nil"   -> <<>>
      [] err.tag = "plain" -> <<[msg |-> err.msg, path |-> <<>>, loc |-> FALSE]>>
      [] err.tag = "gql"   -> <<err.e>>
      [] err.tag = "list"  -> err.errs

----------------------------------------------------------------------------
(* Mutation fields and collaborator outcomes *)

Kinds == {"Add", "Update", "Delete", "NotSupported"}

MutationName == "m"

\* ResponseName() is the alias when the field has one, else the name.
ResponseNames == {MutationName, "one"}

Field(k, rn) == [kind |-> k, name |-> MutationName, responseName |-> rn]

\* The collaborators a sub-pipeline of the given kind refers to.
OpsOf(kind) ==
    CASE kind \in {"Add", "Update"} ->
            {"Rewrite", "Mutate", "FromMutationResult", "Query"}
      [] kind = "Delete" -> {"RewriteDelete", "DeleteNodes"}
      [] OTHER -> {}

\* What the collaborators would answer during one resolve call: the set of
\* operations that fail, the error a failing one returns, and what
\* completeDgraphResult produces.
Outcomes(kind, Errs, Datas, CErrs) ==
    [fails : SUBSET OpsOf(kind), err : Errs, data : Datas, cerr : CErrs]

CollabErr(o, op) == IF op \in o.fails THEN o.err ELSE Nil

RichErrs ==
    { Plain(<<"boom">>),
      Gql(<<"boom">>, <<>>, FALSE),
      Gql(<<"boom">>, <<"q">>, TRUE),
      GqlList(<< [msg |-> <<"boom">>, path |-> <<"q", "f">>, loc |-> FALSE],
                 [msg |-> <<"bang">>, path |-> <<>>, loc |-> FALSE] >>) }

RichDatas == { <<>>, <<"{ \"q\": [] }">> }

RichCErrs ==
    { Nil,
      GqlList(<< [msg |-> <<"non-null">>, path |-> <<"q">>, loc |-> TRUE] >>),
      GqlList(<< [msg |-> <<"non-null">>, path |-> <<"q", "f">>, loc |-> TRUE],
                 [msg |-> <<"bad shape">>, path |-> <<>>, loc |-> FALSE] >>) }

CoarseErrs == { Plain(<<"boom">>) }

CoarseCErrs ==
    { Nil,
      GqlList(<< [msg |-> <<"non-null">>, path |-> <<"q">>, loc |-> TRUE] >>) }

----------------------------------------------------------------------------
(* mutationResolver *)

mutationFailed == FALSE

mutationSucceeded == TRUE

Resolved(d, e) == [data |-> d, err |-> e]

Ret(r, ok, cs) == [res |-> r, succeeded |-> ok, calls |-> cs]

DeletedMsg == <<"{ \"msg\": \"Deleted\" }">>

\* One collaborator call and the error it returned (Nil on success).
Call(op, err) == [op |-> op, err |-> err]

\* resolveMutation with a failed Mutate reported as a mutation that took effect.
resolveMutation_MutateFailSucceeds(m, o) ==
    LET rwErr == CollabErr(o, "Rewrite")
        muErr == CollabErr(o, "Mutate")
        fmErr == CollabErr(o, "FromMutationResult")
        quErr == CollabErr(o, "Query")
        c1 == <<Call("Rewrite", rwErr)>>
        c2 == Append(c1, Call("Mutate", muErr))
        c3 == Append(c2, Call("FromMutationResult", fmErr))
        c4 == Append(c3, Call("Query", quErr))
        c5 == Append(c4, Call("completeDgraphResult", o.cerr))
    IN
    IF rwErr # Nil
    THEN Ret(Resolved(<<>>, GQLWrapf(rwErr, "couldn't rewrite mutation")),
             mutationFailed, c1)
    ELSE IF muErr # Nil
    THEN Ret(Resolved(<<>>, GQLWrapLocationf(muErr,
                 "mutation " \o m.name \o " failed")),
             mutationSucceeded, c2)
    ELSE IF fmErr # Nil
    THEN Ret(Resolved(<<>>, GQLWrapf(fmErr,
                 "couldn't rewrite mutation " \o m.name)),
             mutationSucceeded, c3)
    ELSE IF quErr # Nil
    THEN Ret(Resolved(<<>>, GQLWrapf(quErr,
                 "mutation " \o m.name \o " created a node but query failed")),
             mutationSucceeded, c4)
    ELSE Ret(Resolved(o.data, o.cerr), mutationSucceeded, c5)

\* resolveMutation with a failed follow-up Query reported as a failed mutation.
resolveMutation_QueryFailFails(m, o) ==
    LET rwErr == CollabErr(o, "Rewrite")
        muErr == CollabErr(o, "Mutate")
        fmErr == CollabErr(o, "FromMutationResult")
        quErr == CollabErr(o, "Query")
        c1 == <<Call("Rewrite", rwErr)>>
        c2 == Append(c1, Call("Mutate", muErr))
        c3 == Append(c2, Call("FromMutationResult", fmErr))
        c4 == Append(c3, Call("Query", quErr))
        c5 == Append(c4, Call("completeDgraphResult", o.cerr))
    IN
    IF rwErr # Nil
    THEN Ret(Resolved(<<>>, GQLWrapf(rwErr, "couldn't rewrite mutation")),
             mutationFailed, c1)
    ELSE IF muErr # Nil
    THEN Ret(Resolved(<<>>, GQLWrapLocationf(muErr,
                 "mutation " \o m.name \o " failed")),
             mutationFailed, c2)
    ELSE IF fmErr # Nil
    THEN Ret(Resolved(<<>>, GQLWrapf(fmErr,
                 "couldn't rewrite mutation " \o m.name)),
             mutationSucceeded, c3)
    ELSE IF quErr # Nil
    THEN Ret(Resolved(<<>>, GQLWrapf(quErr,
                 "mutation " \o m.name \o " created a node but query failed")),
             mutationFailed, c4)
    ELSE Ret(Resolved(o.data, o.cerr), mutationSucceeded, c5)

\* resolveMutation with a failed FromMutationResult reported as a failed mutation.
resolveMutation_RewriteQueryFailFails(m, o) ==
    LET rwErr == CollabErr(o, "Rewrite")
        muErr == CollabErr(o, "Mutate")
        fmErr == CollabErr(o, "FromMutationResult")
        quErr == CollabErr(o, "Query")
        c1 == <<Call("Rewrite", rwErr)>>
        c2 == Append(c1, Call("Mutate", muErr))
        c3 == Append(c2, Call("FromMutationResult", fmErr))
        c4 == Append(c3, Call("Query", quErr))
        c5 == Append(c4, Call("completeDgraphResult", o.cerr))
    IN
    IF rwErr # Nil
    THEN Ret(Resolved(<<>>, GQLWrapf(rwErr, "couldn't rewrite mutation")),
             mutationFailed, c1)
    ELSE IF muErr # Nil
    THEN Ret(Resolved(<<>>, GQLWrapLocationf(muErr,
                 "mutation " \o m.name \o " failed")),
             mutationFailed, c2)
    ELSE IF fmErr # Nil
    THEN Ret(Resolved(<<>>, GQLWrapf(fmErr,
                 "couldn't rewrite mutation " \o m.name)),
             mutationFailed, c3)
    ELSE IF quErr # Nil
    THEN Ret(Resolved(<<>>, GQLWrapf(quErr,
                 "mutation " \o m.name \o " created a node but query failed")),
             mutationSucceeded, c4)
    ELSE Ret(Resolved(o.data, o.cerr), mutationSucceeded, c5)

\* resolveMutation calling Mutate before it looks at the error of Rewrite.
resolveMutation_MutateRegardless(m, o) ==
    LET rwErr == CollabErr(o, "Rewrite")
        muErr == CollabErr(o, "Mutate")
        fmErr == CollabErr(o, "FromMutationResult")
        quErr == CollabErr(o, "Query")
        c1 == <<Call("Rewrite", rwErr)>>
        c2 == Append(c1, Call("Mutate", muErr))
        c3 == Append(c2, Call("FromMutationResult", fmErr))
        c4 == Append(c3, Call("Query", quErr))
        c5 == Append(c4, Call("completeDgraphResult", o.cerr))
    IN
    IF rwErr # Nil
    THEN Ret(Resolved(<<>>, GQLWrapf(rwErr, "couldn't rewrite mutation")),
             mutationFailed, c2)
    ELSE IF muErr # Nil
    THEN Ret(Resolved(<<>>, GQLWrapLocationf(muErr,
                 "mutation " \o m.name \o " failed")),
             mutationFailed, c2)
    ELSE IF fmErr # Nil
    THEN Ret(Resolved(<<>>, GQLWrapf(fmErr,
                 "couldn't rewrite mutation " \o m.name)),
             mutationSucceeded, c3)
    ELSE IF quErr # Nil
    THEN Ret(Resolved(<<>>, GQLWrapf(quErr,
                 "mutation " \o m.name \o " created a node but query failed")),
             mutationSucceeded, c4)
    ELSE Ret(Resolved(o.data, o.cerr), mutationSucceeded, c5)

resolveMutation(m, o) ==
    LET rwErr == CollabErr(o, "Rewrite")
        muErr == CollabErr(o, "Mutate")
        fmErr == CollabErr(o, "FromMutationResult")
        quErr == CollabErr(o, "Query")
        c1 == <<Call("Rewrite", rwErr)>>
        c2 == Append(c1, Call("Mutate", muErr))
        c3 == Append(c2, Call("FromMutationResult", fmErr))
        c4 == Append(c3, Call("Query", quErr))
        c5 == Append(c4, Call("completeDgraphResult", o.cerr))
    IN
    IF rwErr # Nil
    THEN Ret(Resolved(<<>>, GQLWrapf(rwErr, "couldn't rewrite mutation")),
             mutationFailed, c1)
    ELSE IF muErr # Nil
    THEN Ret(Resolved(<<>>, GQLWrapLocationf(muErr,
                 "mutation " \o m.name \o " failed")),
             mutationFailed, c2)
    ELSE IF fmErr # Nil
    THEN Ret(Resolved(<<>>, GQLWrapf(fmErr,
                 "couldn't rewrite mutation " \o m.name)),
             mutationSucceeded, c3)
    ELSE IF quErr # Nil
    THEN Ret(Resolved(<<>>, GQLWrapf(quErr,
                 "mutation " \o m.name \o " created a node but query failed")),
             mutationSucceeded, c4)
    ELSE Ret(Resolved(o.data, o.cerr), mutationSucceeded, c5)

\* resolveDeleteMutation with the error of DeleteNodes dropped.
resolveDeleteMutation_ErrDropped(m, o) ==
    LET rwErr == CollabErr(o, "RewriteDelete")
        dnErr == CollabErr(o, "DeleteNodes")
        c1 == <<Call("RewriteDelete", rwErr)>>
        c2 == Append(c1, Call("DeleteNodes", dnErr))
    IN
    IF rwErr # Nil
    THEN Ret(Resolved(<<>>, GQLWrapf(rwErr, "couldn't rewrite mutation")),
             mutationFailed, c1)
    ELSE Ret(Resolved(DeletedMsg, Nil), mutationSucceeded, c2)

resolveDeleteMutation(m, o) ==
    LET rwErr == CollabErr(o, "RewriteDelete")
        dnErr == CollabErr(o, "DeleteNodes")
        c1 == <<Call("RewriteDelete", rwErr)>>
        c2 == Append(c1, Call("DeleteNodes", dnErr))
    IN
    IF rwErr # Nil
    THEN Ret(Resolved(<<>>, GQLWrapf(rwErr, "couldn't rewrite mutation")),
             mutationFailed, c1)
    ELSE IF dnErr # Nil
    THEN Ret(Resolved(<<>>, GQLWrapf(dnErr, "mutation " \o m.name \o " failed")),
             mutationFailed, c2)
    ELSE Ret(Resolved(DeletedMsg, Nil), mutationSucceeded, c2)

\* The bytes.Buffer of resolve: '"', ResponseName(), '": ', then the data or null.
wrapData(name, data) ==
    <<"\"", name, "\": ">> \o (IF Len(data) > 0 THEN data ELSE <<"null">>)

\* prefixPaths with the length test dropped: every path gets the prefix.
prefixPaths_All(name, errs) ==
    [i \in 1..Len(errs) |-> [errs[i] EXCEPT !.path = <<name>> \o errs[i].path]]

\* The loop over AsGQLErrors(res.err): a non-empty path gets the response
\* name prepended, an empty one is left alone.
prefixPaths(name, errs) ==
    [i \in 1..Len(errs) |->
        IF Len(errs[i].path) > 0
        THEN [errs[i] EXCEPT !.path = <<name>> \o errs[i].path]
        ELSE errs[i]]

\* What the sub-pipeline returned, kept beside the value resolve returns.
Pre(sub) == [data |-> sub.res.data, err |-> sub.res.err, succeeded |-> sub.succeeded]

\* resolve deriving the flag from the absence of errors after post-processing.
resolve_FlagFromErrors(m, o) ==
    LET sub == CASE m.kind = "Add"    -> resolveMutation(m, o)
                 [] m.kind = "Delete" -> resolveDeleteMutation(m, o)
                 [] m.kind = "Update" -> resolveMutation(m, o)
                 [] OTHER -> Ret(Resolved(<<>>,
                        Errorf("Only add, delete and update mutations are implemented")),
                        mutationFailed, <<>>)
    IN
    IF m.kind \notin {"Add", "Delete", "Update"}
    THEN [res |-> sub.res, succeeded |-> sub.succeeded, calls |-> sub.calls,
          pre |-> Pre(sub)]
    ELSE [res |-> Resolved(wrapData(m.responseName, sub.res.data),
                      GqlList(prefixPaths(m.responseName, AsGQLErrors(sub.res.err)))),
          succeeded |-> (sub.res.err = Nil),
          calls |-> sub.calls,
          pre |-> Pre(sub)]

\* resolve with the default case sent down the add/update pipeline.
resolve_DefaultIsAdd(m, o) ==
    LET sub == CASE m.kind = "Delete" -> resolveDeleteMutation(m, o)
                 [] OTHER -> resolveMutation(m, o)
    IN
    [res |-> Resolved(wrapData(m.responseName, sub.res.data),
                 GqlList(prefixPaths(m.responseName, AsGQLErrors(sub.res.err)))),
     succeeded |-> sub.succeeded,
     calls |-> sub.calls,
     pre |-> Pre(sub)]

\* resolve: [res, succeeded, calls] as above plus pre, the resolved value
\* before the result-path post-processing.
resolve(m, o) ==
    LET sub == CASE m.kind = "Add"    -> resolveMutation(m, o)
                 [] m.kind = "Delete" -> resolveDeleteMutation(m, o)
                 [] m.kind = "Update" -> resolveMutation(m, o)
                 [] OTHER -> Ret(Resolved(<<>>,
                        Errorf("Only add, delete and update mutations are implemented")),
                        mutationFailed, <<>>)
    IN
    IF m.kind \notin {"Add", "Delete", "Update"}
    THEN [res |-> sub.res, succeeded |-> sub.succeeded, calls |-> sub.calls,
          pre |-> Pre(sub)]
    ELSE [res |-> Resolved(wrapData(m.responseName, sub.res.data),
                      GqlList(prefixPaths(m.responseName, AsGQLErrors(sub.res.err)))),
          succeeded |-> sub.succeeded,
          calls |-> sub.calls,
          pre |-> Pre(sub)]

----------------------------------------------------------------------------
(* The host: resolves the operation's mutation fields one at a time, in     *)
(* order, and stops after the first field that did not succeed.            *)

FieldLists(n, Names) ==
    UNION { [1..k -> {Field(kd, rn) : kd \in Kinds, rn \in Names}] : k \in 1..n }

HostResolve(Errs, Datas, CErrs) ==
    /\ ~stopped
    /\ nextField <= Len(fields)
    /\ \E o \in Outcomes(fields[nextField].kind, Errs, Datas, CErrs) :
          LET r == resolve(fields[nextField], o) IN
          /\ results' = Append(results, [data |-> r.res.data, err |-> r.res.err,
                                         succeeded |-> r.succeeded])
          /\ inner' = Append(inner, r.pre)
          /\ calls' = calls \o [i \in 1..Len(r.calls) |->
                                   [field |-> nextField, op |-> r.calls[i].op,
                                    err |-> r.calls[i].err]]
          /\ stopped' = ~r.succeeded
    /\ nextField' = nextField + 1
    /\ UNCHANGED <<fields, cvars, svars>>

ResolveOne == HostResolve(RichErrs, RichDatas, RichCErrs)

ResolveNext == HostResolve(CoarseErrs, RichDatas, CoarseCErrs)

RInit(n, Names) ==
    /\ fields \in FieldLists(n, Names)
    /\ nextField = 1
    /\ stopped = FALSE
    /\ results = <<>>
    /\ inner = <<>>
    /\ calls = <<>>

----------------------------------------------------------------------------
(* KVList and its wire encoding *)

Keys == {"a", "b"}

KV(k, v) == [key |-> k, val |-> v]

\* pb.KVList.Marshal: a length-delimited encoding, a record count and the records.
Marshal(kvs) == [n |-> Len(kvs), recs |-> kvs]

\* pb.KVList.Unmarshal: fails on a payload whose records do not match its count.
Unmarshal(value) ==
    IF value.n = Len(value.recs)
    THEN [err |-> FALSE, kv |-> value.recs]
    ELSE [err |-> TRUE, kv |-> <<>>]

Batches ==
    { <<>>,
      <<KV("a", 1), KV("b", 1), KV("a", 2)>>,
      <<KV("b", 3), KV("a", 3)>> }

\* A payload cut short in transit: it announces more records than it holds.
Truncated == [n |-> 2, recs |-> <<KV("a", 1)>>]

MessageValues == { Marshal(b) : b \in Batches } \cup { Truncated }

Topics == UNION { [1..n -> MessageValues] : n \in 1..MaxMsgs }

----------------------------------------------------------------------------
(* Local storage and its bulk loader (badger KVLoader): Set buffers a       *)
(* record and may write the buffer out; Finish writes out what is left and *)
(* waits for it.  Storage keeps the last value written for a key.          *)

NoLoader == [id |-> 0, fed |-> <<>>, applied |-> 0]

RECURSIVE ApplyFrom(_, _, _, _)
ApplyFrom(st, kvs, from, to) ==
    IF from > to THEN st
    ELSE ApplyFrom([st EXCEPT ![kvs[from].key] = kvs[from].val], kvs, from + 1, to)

----------------------------------------------------------------------------
(* Consumer.ConsumeClaim, one step per statement of its loop *)

Ev(e, off, l, i) == [ev |-> e, off |-> off, loader |-> l, idx |-> i]

MaxOf(S, d) == IF S = {} THEN d ELSE CHOOSE x \in S : \A y \in S : y <= x

\* The offsets marked in the running session: those the session's offset
\* manager holds and can commit.  Marks of a process that died are gone.
SessionMarks == { off \in marked : committed < off /\ off < cur }

\* The consumer group hands the claim to ConsumeClaim; delivery resumes
\* after the committed offset.
StartClaim ==
    /\ cpc = "idle"
    /\ session < MaxSessions
    /\ session' = session + 1
    /\ cur' = committed + 1
    /\ cpc' = "recv"
    /\ callLog' = <<>>
    /\ list' = <<>>
    /\ setIdx' = 1
    /\ loader' = NoLoader
    /\ UNCHANGED <<topic, committed, marked, nLoaders, store, finished, rvars, svars>>

\* RecvMessage with the unmarshal error logged and the loop continued.
RecvMessage_SkipCorrupt ==
    /\ cpc = "recv"
    /\ cur <= Len(topic)
    /\ LET u == Unmarshal(topic[cur]) IN
       IF u.err
       THEN /\ cpc' = "recv"
            /\ cur' = cur + 1
            /\ callLog' = Append(callLog, Ev("Skip", cur, 0, 0))
            /\ UNCHANGED <<list, committed>>
       ELSE /\ cpc' = "newloader"
            /\ list' = u.kv
            /\ callLog' = Append(callLog, Ev("Unmarshal", cur, 0, 0))
            /\ UNCHANGED <<committed, cur>>
    /\ UNCHANGED <<topic, marked, session, setIdx, loader, nLoaders, store,
                   finished, rvars, svars>>

\* for message := range claim.Messages() { list.Unmarshal(message.Value) ...
RecvMessage ==
    /\ cpc = "recv"
    /\ cur <= Len(topic)
    /\ LET u == Unmarshal(topic[cur]) IN
       IF u.err
       THEN /\ cpc' = "idle"
            /\ callLog' = Append(callLog, Ev("ReturnErr", cur, 0, 0))
            /\ committed' = MaxOf(SessionMarks, committed)
            /\ UNCHANGED list
       ELSE /\ cpc' = "newloader"
            /\ list' = u.kv
            /\ callLog' = Append(callLog, Ev("Unmarshal", cur, 0, 0))
            /\ UNCHANGED committed
    /\ UNCHANGED <<topic, marked, session, cur, setIdx, loader, nLoaders, store,
                   finished, rvars, svars>>

\* loader := State.Pstore.NewLoader(16)
NewLoader ==
    /\ cpc = "newloader"
    /\ nLoaders' = nLoaders + 1
    /\ loader' = [id |-> nLoaders + 1, fed |-> <<>>, applied |-> 0]
    /\ setIdx' = 1
    /\ cpc' = "set"
    /\ callLog' = Append(callLog, Ev("NewLoader", cur, nLoaders + 1, 0))
    /\ UNCHANGED <<topic, committed, marked, session, cur, list, store, finished,
                   rvars, svars>>

\* LoaderSet walking list.Kv from its end.
LoaderSet_Reversed ==
    /\ cpc = "set"
    /\ setIdx <= Len(list)
    /\ LET fed == Append(loader.fed, list[Len(list) + 1 - setIdx]) IN
       \E n \in {loader.applied, Len(fed)} :
          /\ loader' = [loader EXCEPT !.fed = fed, !.applied = n]
          /\ store' = ApplyFrom(store, fed, loader.applied + 1, n)
    /\ setIdx' = setIdx + 1
    /\ callLog' = Append(callLog, Ev("Set", cur, loader.id, setIdx))
    /\ UNCHANGED <<topic, committed, marked, session, cpc, cur, list, nLoaders,
                   finished, rvars, svars>>

\* for _, kv := range list.Kv { loader.Set(kv) }
LoaderSet ==
    /\ cpc = "set"
    /\ setIdx <= Len(list)
    /\ LET fed == Append(loader.fed, list[setIdx]) IN
       \E n \in {loader.applied, Len(fed)} :
          /\ loader' = [loader EXCEPT !.fed = fed, !.applied = n]
          /\ store' = ApplyFrom(store, fed, loader.applied + 1, n)
    /\ setIdx' = setIdx + 1
    /\ callLog' = Append(callLog, Ev("Set", cur, loader.id, setIdx))
    /\ UNCHANGED <<topic, committed, marked, session, cpc, cur, list, nLoaders,
                   finished, rvars, svars>>

\* LoaderFinish returning without writing out what Set left in the buffer.
LoaderFinish_NoFlush ==
    /\ cpc = "set"
    /\ setIdx > Len(list)
    /\ finished' = finished \cup {[off |-> cur, fed |-> loader.fed, id |-> loader.id]}
    /\ cpc' = "mark"
    /\ callLog' = Append(callLog, Ev("Finish", cur, loader.id, 0))
    /\ UNCHANGED <<topic, committed, marked, session, cur, list, setIdx, nLoaders,
                   loader, store, rvars, svars>>

\* LoaderFinish reachable before the loop over list.Kv has ended.
LoaderFinish_Early ==
    /\ cpc = "set"
    /\ store' = ApplyFrom(store, loader.fed, loader.applied + 1, Len(loader.fed))
    /\ loader' = [loader EXCEPT !.applied = Len(loader.fed)]
    /\ finished' = finished \cup {[off |-> cur, fed |-> loader.fed, id |-> loader.id]}
    /\ cpc' = "mark"
    /\ callLog' = Append(callLog, Ev("Finish", cur, loader.id, 0))
    /\ UNCHANGED <<topic, committed, marked, session, cur, list, setIdx, nLoaders,
                   rvars, svars>>

\* loader.Finish()
LoaderFinish ==
    /\ cpc = "set"
    /\ setIdx > Len(list)
    /\ store' = ApplyFrom(store, loader.fed, loader.applied + 1, Len(loader.fed))
    /\ loader' = [loader EXCEPT !.applied = Len(loader.fed)]
    /\ finished' = finished \cup {[off |-> cur, fed |-> loader.fed, id |-> loader.id]}
    /\ cpc' = "mark"
    /\ callLog' = Append(callLog, Ev("Finish", cur, loader.id, 0))
    /\ UNCHANGED <<topic, committed, marked, session, cur, list, setIdx, nLoaders,
                   rvars, svars>>

\* session.MarkMessage(message, ""), and on to the next message
MarkMessage ==
    /\ cpc = "mark"
    /\ marked' = marked \cup {cur}
    /\ callLog' = Append(callLog, Ev("Mark", cur, 0, 0))
    /\ cur' = cur + 1
    /\ cpc' = "recv"
    /\ UNCHANGED <<topic, committed, session, list, setIdx, loader, nLoaders,
                   store, finished, rvars, svars>>

\* claim.Messages() is closed (the session ends): the loop ends, return nil.
\* The marked offsets are committed as the session is released.
ClaimClosed ==
    /\ cpc = "recv"
    /\ cpc' = "idle"
    /\ callLog' = Append(callLog, Ev("ReturnNil", cur, 0, 0))
    /\ committed' = MaxOf(SessionMarks, committed)
    /\ UNCHANGED <<topic, marked, session, cur, list, setIdx, loader, nLoaders,
                   store, finished, rvars, svars>>

\* The process dies anywhere inside ConsumeClaim.  What the loader had not
\* written out is lost; marks made since the last offset commit may or may
\* not have been committed.
Crash ==
    /\ cpc \notin {"idle"}
    /\ cpc' = "idle"
    /\ callLog' = Append(callLog, Ev("Crash", cur, 0, 0))
    /\ \E c \in {committed, MaxOf(SessionMarks, committed)} : committed' = c
    /\ loader' = NoLoader
    /\ UNCHANGED <<topic, marked, session, cur, list, setIdx, nLoaders, store,
                   finished, rvars, svars>>

----------------------------------------------------------------------------
(* setupKafkaSource, its driver goroutine and the session handlers *)

MaxAttempts == 10

NoBrokers == ""

BrokerLists == {NoBrokers, "k1:9092,k2:9092"}

\* The retry loop is over: the last attempt created the client, or the
\* attempts are used up.
LoopOver(tries) ==
    tries # <<>> /\ (tries[Len(tries)] \/ Len(tries) >= MaxAttempts)

\* SourceStart with the len(sourceBrokers) > 0 test dropped.
SourceStart_NoCheck ==
    /\ fault = "none"
    /\ spc = "start"
    /\ spc' = "construct"
    /\ UNCHANGED <<sourceBrokers, sTries, dpc, ready, nConsumes, nSetups, fault,
                   targetBrokers, tpc, tTries, subscr, cbLog, sent, rvars, cvars>>

\* sourceBrokers := Config.KafkaOpt.SourceBrokers; if len(sourceBrokers) > 0 {
SourceStart ==
    /\ fault = "none"
    /\ spc = "start"
    /\ spc' = IF sourceBrokers # NoBrokers THEN "construct" ELSE "done"
    /\ UNCHANGED <<sourceBrokers, sTries, dpc, ready, nConsumes, nSetups, fault,
                   targetBrokers, tpc, tTries, subscr, cbLog, sent, rvars, cvars>>

\* SourceConstruct with the break on success dropped.
SourceConstruct_NoBreak ==
    /\ fault = "none"
    /\ spc = "construct"
    /\ Len(sTries) < MaxAttempts
    /\ \E created \in BOOLEAN : sTries' = Append(sTries, created)
    /\ UNCHANGED <<sourceBrokers, spc, dpc, ready, nConsumes, nSetups, fault,
                   targetBrokers, tpc, tTries, subscr, cbLog, sent, rvars, cvars>>

\* One iteration of for i := 0; i < 10; i++ { client, err = NewConsumerGroup
\* ...; break on success, else log and sleep 5 seconds }.
SourceConstruct ==
    /\ fault = "none"
    /\ spc = "construct"
    /\ ~LoopOver(sTries)
    /\ \E created \in BOOLEAN : sTries' = Append(sTries, created)
    /\ UNCHANGED <<sourceBrokers, spc, dpc, ready, nConsumes, nSetups, fault,
                   targetBrokers, tpc, tTries, subscr, cbLog, sent, rvars, cvars>>

\* SourceAfterLoop with the error only logged, as setupKafkaTarget does.
SourceAfterLoop_NoPanic ==
    /\ fault = "none"
    /\ spc = "construct"
    /\ LoopOver(sTries)
    /\ IF sTries[Len(sTries)]
       THEN /\ dpc' = "loop"
            /\ spc' = "wait"
       ELSE /\ spc' = "done"
            /\ UNCHANGED dpc
    /\ UNCHANGED <<sourceBrokers, sTries, ready, nConsumes, nSetups, fault,
                   targetBrokers, tpc, tTries, subscr, cbLog, sent, rvars, cvars>>

\* if err != nil { panic(err) }; go func() { for { client.Consume ... } }()
SourceAfterLoop ==
    /\ fault = "none"
    /\ spc = "construct"
    /\ LoopOver(sTries)
    /\ IF sTries[Len(sTries)]
       THEN /\ dpc' = "loop"
            /\ spc' = "wait"
            /\ UNCHANGED fault
       ELSE /\ fault' = "NewConsumerGroup"
            /\ spc' = "panic"
            /\ UNCHANGED dpc
    /\ UNCHANGED <<sourceBrokers, sTries, ready, nConsumes, nSetups,
                   targetBrokers, tpc, tTries, subscr, cbLog, sent, rvars, cvars>>

\* <-consumer.ready with the receive dropped.
SourceAwaitReady_NoWait ==
    /\ fault = "none"
    /\ spc = "wait"
    /\ spc' = "done"
    /\ UNCHANGED <<sourceBrokers, sTries, dpc, ready, nConsumes, nSetups, fault,
                   targetBrokers, tpc, tTries, subscr, cbLog, sent, rvars, cvars>>

\* <-consumer.ready: a receive on the channel completes once it is closed.
SourceAwaitReady ==
    /\ fault = "none"
    /\ spc = "wait"
    /\ ready = "closed"
    /\ spc' = "done"
    /\ UNCHANGED <<sourceBrokers, sTries, dpc, ready, nConsumes, nSetups, fault,
                   targetBrokers, tpc, tTries, subscr, cbLog, sent, rvars, cvars>>

\* The driver loop calls client.Consume: it fails before a session exists
\* (the error is logged and the loop goes round), or it joins the group and
\* the new session calls Setup.
DriverConsume ==
    /\ fault = "none"
    /\ dpc = "loop"
    /\ nConsumes < MaxConsumes
    /\ nConsumes' = nConsumes + 1
    /\ \E joined \in BOOLEAN : dpc' = IF joined THEN "setup" ELSE "loop"
    /\ UNCHANGED <<sourceBrokers, spc, sTries, ready, nSetups, fault,
                   targetBrokers, tpc, tTries, subscr, cbLog, sent, rvars, cvars>>

\* Consumer.Setup: close(consumer.ready); return nil.  Closing a channel
\* that is already closed panics.
Setup ==
    /\ fault = "none"
    /\ dpc = "setup"
    /\ IF ready = "closed"
       THEN /\ fault' = "Setup"
            /\ dpc' = "dead"
            /\ UNCHANGED <<ready, nSetups>>
       ELSE /\ ready' = "closed"
            /\ nSetups' = nSetups + 1
            /\ dpc' = "session"
            /\ UNCHANGED fault
    /\ UNCHANGED <<sourceBrokers, spc, sTries, nConsumes,
                   targetBrokers, tpc, tTries, subscr, cbLog, sent, rvars, cvars>>

\* The session ends (a rebalance, a broker error, an error returned by
\* ConsumeClaim): Cleanup returns nil, Consume returns, the error if any is
\* logged and the loop goes round.
SessionEnds ==
    /\ fault = "none"
    /\ dpc = "session"
    /\ dpc' = "loop"
    /\ UNCHANGED <<sourceBrokers, spc, sTries, ready, nConsumes, nSetups, fault,
                   targetBrokers, tpc, tTries, subscr, cbLog, sent, rvars, cvars>>

----------------------------------------------------------------------------
(* setupKafkaTarget, its callback and its Subscribe goroutine *)

KafkaTopic == "kafkaTopic"

TargetStart ==
    /\ fault = "none"
    /\ tpc = "start"
    /\ tpc' = IF targetBrokers # NoBrokers THEN "construct" ELSE "done"
    /\ UNCHANGED <<sourceBrokers, spc, sTries, dpc, ready, nConsumes, nSetups,
                   fault, targetBrokers, tTries, subscr, cbLog, sent, rvars, cvars>>

\* One iteration of for i := 0; i < 10; i++ { producer, err = NewSyncProducer
\* ...; break on success, else log and sleep 5 seconds }.
TargetConstruct ==
    /\ fault = "none"
    /\ tpc = "construct"
    /\ ~LoopOver(tTries)
    /\ \E created \in BOOLEAN : tTries' = Append(tTries, created)
    /\ UNCHANGED <<sourceBrokers, spc, sTries, dpc, ready, nConsumes, nSetups,
                   fault, targetBrokers, tpc, subscr, cbLog, sent, rvars, cvars>>

\* if err != nil { log; return }; cb := ...; go func() { s.Pstore.Subscribe(
\* ctx, cb, nil) }()
TargetAfterLoop ==
    /\ fault = "none"
    /\ tpc = "construct"
    /\ LoopOver(tTries)
    /\ subscr' = IF tTries[Len(tTries)] THEN "running" ELSE subscr
    /\ tpc' = "done"
    /\ UNCHANGED <<sourceBrokers, spc, sTries, dpc, ready, nConsumes, nSetups,
                   fault, targetBrokers, tTries, cbLog, sent, rvars, cvars>>

\* cb sending a second time when SendMessage reports an error.
TargetCallback_Retry(BatchSet) ==
    /\ fault = "none"
    /\ subscr = "running"
    /\ Len(cbLog) < MaxBatches
    /\ \E b \in BatchSet, marshalErr \in BOOLEAN :
       \E sendErr \in (IF marshalErr THEN {FALSE} ELSE BOOLEAN) :
          LET msg == [topic |-> KafkaTopic, value |-> Marshal(b)] IN
          /\ cbLog' = Append(cbLog, [batch |-> b, marshalErr |-> marshalErr,
                                     sendErr |-> sendErr])
          /\ sent' = IF marshalErr THEN sent
                     ELSE IF sendErr THEN sent \o <<msg, msg>>
                     ELSE Append(sent, msg)
    /\ UNCHANGED <<sourceBrokers, spc, sTries, dpc, ready, nConsumes, nSetups,
                   fault, targetBrokers, tpc, tTries, subscr, rvars, cvars>>

\* cb, called by the storage layer with one committed KVList.
TargetCallback(BatchSet) ==
    /\ fault = "none"
    /\ subscr = "running"
    /\ Len(cbLog) < MaxBatches
    /\ \E b \in BatchSet, marshalErr \in BOOLEAN :
       \E sendErr \in (IF marshalErr THEN {FALSE} ELSE BOOLEAN) :
          /\ cbLog' = Append(cbLog, [batch |-> b, marshalErr |-> marshalErr,
                                     sendErr |-> sendErr])
          /\ sent' = IF marshalErr
                     THEN sent
                     ELSE Append(sent, [topic |-> KafkaTopic, value |-> Marshal(b)])
    /\ UNCHANGED <<sourceBrokers, spc, sTries, dpc, ready, nConsumes, nSetups,
                   fault, targetBrokers, tpc, tTries, subscr, rvars, cvars>>

\* s.Pstore.Subscribe returns an error: it is logged, nothing restarts it.
SubscribeEnds ==
    /\ fault = "none"
    /\ subscr = "running"
    /\ subscr' = "ended"
    /\ UNCHANGED <<sourceBrokers, spc, sTries, dpc, ready, nConsumes, nSetups,
                   fault, targetBrokers, tpc, tTries, cbLog, sent, rvars, cvars>>

Callback == TargetCallback({<<KV("a", 1)>>})

CallbackAny == TargetCallback(Batches)

SInit(Src, Tgt) ==
    /\ sourceBrokers \in Src
    /\ spc = "start"
    /\ sTries = <<>>
    /\ dpc = "none"
    /\ ready = "open"
    /\ nConsumes = 0
    /\ nSetups = 0
    /\ fault = "none"
    /\ targetBrokers \in Tgt
    /\ tpc = "start"
    /\ tTries = <<>>
    /\ subscr = "none"
    /\ cbLog = <<>>
    /\ sent = <<>>

\* Neither pipeline configured, neither setup function entered.
SIdle == SInit({NoBrokers}, {NoBrokers})

CInit ==
    /\ topic \in Topics
    /\ committed = 0
    /\ marked = {}
    /\ session = 0
    /\ cpc = "idle"
    /\ cur = 1
    /\ list = <<>>
    /\ setIdx = 1
    /\ loader = NoLoader
    /\ nLoaders = 0
    /\ store = [k \in Keys |-> 0]
    /\ finished = {}
    /\ callLog = <<>>

\* The consumer before any message has been produced to the topic.
CIdle ==
    /\ topic = <<>>
    /\ committed = 0
    /\ marked = {}
    /\ session = 0
    /\ cpc = "idle"
    /\ cur = 1
    /\ list = <<>>
    /\ setIdx = 1
    /\ loader = NoLoader
    /\ nLoaders = 0
    /\ store = [k \in Keys |-> 0]
    /\ finished = {}
    /\ callLog = <<>>

\* No mutation operation in progress.
RIdle ==
    /\ fields = <<>>
    /\ nextField = 1
    /\ stopped = FALSE
    /\ results = <<>>
    /\ inner = <<>>
    /\ calls = <<>>

----------------------------------------------------------------------------
(* Specifications *)

\* One mutation field resolved against the full range of collaborator answers.
Init == RInit(1, ResponseNames) /\ CIdle /\ SIdle

Next == ResolveOne

Spec == Init /\ [][Next]_vars

\* A serial batch of up to MaxFields mutation fields.
InitBatch == RInit(MaxFields, {MutationName}) /\ CIdle /\ SIdle

NextBatch == ResolveNext

SpecBatch == InitBatch /\ [][NextBatch]_vars

\* The CDC consumer on one claimed partition.
InitConsumer == CInit /\ RIdle /\ SIdle

NextConsumer ==
    \/ StartClaim
    \/ RecvMessage
    \/ NewLoader
    \/ LoaderSet
    \/ LoaderFinish
    \/ MarkMessage
    \/ ClaimClosed
    \/ Crash

SpecConsumer == InitConsumer /\ [][NextConsumer]_vars

\* Process initialization: setupKafkaSource and setupKafkaTarget, each with
\* its background goroutine.
InitSetup == SInit(BrokerLists, BrokerLists) /\ RIdle /\ CIdle

NextSetup ==
    \/ SourceStart
    \/ SourceConstruct
    \/ SourceAfterLoop
    \/ SourceAwaitReady
    \/ DriverConsume
    \/ Setup
    \/ SessionEnds
    \/ TargetStart
    \/ TargetConstruct
    \/ TargetAfterLoop
    \/ Callback
    \/ SubscribeEnds

SpecSetup == InitSetup /\ [][NextSetup]_vars

\* The producer alone, against every batch the storage layer may deliver.
InitTarget == SInit({NoBrokers}, BrokerLists) /\ RIdle /\ CIdle

NextTarget ==
    \/ TargetStart
    \/ TargetConstruct
    \/ TargetAfterLoop
    \/ CallbackAny
    \/ SubscribeEnds

SpecTarget == InitTarget /\ [][NextTarget]_vars

----------------------------------------------------------------------------
(* Properties of the mutation resolver *)

Attempted == 1..Len(results)

ErrsOf(i) == AsGQLErrors(results[i].err)

CallsOf(i) == { j \in 1..Len(calls) : calls[j].field = i }

Called(i, op) == \E j \in CallsOf(i) : calls[j].op = op

Failed(i, op) == \E j \in CallsOf(i) : calls[j].op = op /\ calls[j].err # Nil

Succeeded(i, op) == \E j \in CallsOf(i) : calls[j].op = op /\ calls[j].err = Nil

TimesCalled(i, op) == Cardinality({ j \in CallsOf(i) : calls[j].op = op })

IsAddOrUpdate(i) == fields[i].kind \in {"Add", "Update"}

\* The bytes of "<responseName>": followed by the given fragment.
Keyed(i, frag) == <<"\"", fields[i].responseName, "\": ">> \o frag

NullData(i) == Keyed(i, <<"null">>)

\* C1: for every mutation kind, unsupported kinds included, the data resolve
\* returns is "<responseName>": <fragment>, the fragment being the
\* sub-pipeline's data when it has any and the literal null otherwise.
C1_DataWrappedOnce ==
    \A i \in Attempted :
        results[i].data =
            Keyed(i, IF inner[i].data # <<>> THEN inner[i].data ELSE <<"null">>)

\* C1 restricted to the kinds that reach the post-processing of resolve.
C1_SupportedKindsWrappedOnce ==
    \A i \in Attempted :
        fields[i].kind \in {"Add", "Update", "Delete"} =>
            results[i].data =
                Keyed(i, IF inner[i].data # <<>> THEN inner[i].data ELSE <<"null">>)

\* C2: post-processing keeps the number and order of the errors; an error
\* whose path was non-empty comes back with the response name in front of that
\* path, an error whose path was empty comes back with an empty path.
C2_ErrorPathsPrefixed ==
    \A i \in Attempted :
        LET before == AsGQLErrors(inner[i].err)
            after  == ErrsOf(i)
        IN
        /\ Len(after) = Len(before)
        /\ \A j \in 1..Len(before) :
              /\ after[j].msg = before[j].msg
              /\ after[j].loc = before[j].loc
              /\ IF before[j].path # <<>>
                 THEN /\ after[j].path = <<fields[i].responseName>> \o before[j].path
                      /\ after[j].path[1] = fields[i].responseName
                 ELSE after[j].path = <<>>

C2_Witness ==
    \E i \in Attempted :
        LET before == AsGQLErrors(inner[i].err) IN
        /\ Len(before) = 2
        /\ before[1].path = <<"q", "f">>
        /\ before[2].path = <<>>
        /\ fields[i].responseName = "one"
        /\ ErrsOf(i)[1].path = <<"one", "q", "f">>

\* C3: an Add or Update whose Rewrite or Mutate fails returns
\* succeeded=false, at least one error and no data ("<responseName>": null);
\* after a failed Rewrite Mutate is not called, and in both cases neither
\* FromMutationResult, Query nor completion is called.
C3_WriteFailureIsFatal ==
    \A i \in Attempted :
        (IsAddOrUpdate(i) /\ (Failed(i, "Rewrite") \/ Failed(i, "Mutate"))) =>
            /\ results[i].succeeded = FALSE
            /\ Len(ErrsOf(i)) > 0
            /\ inner[i].data = <<>>
            /\ results[i].data = NullData(i)
            /\ Failed(i, "Rewrite") => ~Called(i, "Mutate")
            /\ ~Called(i, "FromMutationResult")
            /\ ~Called(i, "Query")
            /\ ~Called(i, "completeDgraphResult")

C3_Witness ==
    \E i \in Attempted :
        /\ fields[i].kind = "Update"
        /\ Succeeded(i, "Rewrite")
        /\ Failed(i, "Mutate")
        /\ results[i].succeeded = FALSE
        /\ results[i].data = NullData(i)

\* C4: an Add or Update whose Rewrite and Mutate succeed returns
\* succeeded=true; when FromMutationResult or the follow-up Query fails it
\* carries at least one error and null data, and when both succeed the flag
\* is true whether or not completion reported errors.
C4_ReadBackFailureIsNotFatal ==
    \A i \in Attempted :
        (IsAddOrUpdate(i) /\ Succeeded(i, "Rewrite") /\ Succeeded(i, "Mutate")) =>
            /\ results[i].succeeded = TRUE
            /\ (Failed(i, "FromMutationResult") \/ Failed(i, "Query")) =>
                  /\ Len(ErrsOf(i)) > 0
                  /\ results[i].data = NullData(i)
            /\ Failed(i, "FromMutationResult") => ~Called(i, "Query")
            /\ (Succeeded(i, "FromMutationResult") /\ Succeeded(i, "Query")) =>
                  Called(i, "completeDgraphResult")

C4_Witness ==
    \E i \in Attempted :
        /\ fields[i].kind = "Add"
        /\ Succeeded(i, "Mutate")
        /\ Failed(i, "Query")
        /\ results[i].succeeded = TRUE
        /\ Len(ErrsOf(i)) > 0

\* C5: a Delete whose RewriteDelete and DeleteNodes succeed returns
\* succeeded=true, no error and "<responseName>": { "msg": "Deleted" }; one
\* whose RewriteDelete or DeleteNodes fails returns succeeded=false, at least
\* one error and null data; no Delete issues a follow-up Query.
C5_DeleteResult ==
    \A i \in Attempted :
        fields[i].kind = "Delete" =>
            /\ ~Called(i, "Query")
            /\ ~Called(i, "FromMutationResult")
            /\ ~Called(i, "completeDgraphResult")
            /\ (Succeeded(i, "RewriteDelete") /\ Succeeded(i, "DeleteNodes")) =>
                  /\ results[i].succeeded = TRUE
                  /\ ErrsOf(i) = <<>>
                  /\ results[i].data = Keyed(i, <<"{ \"msg\": \"Deleted\" }">>)
            /\ (Failed(i, "RewriteDelete") \/ Failed(i, "DeleteNodes")) =>
                  /\ results[i].succeeded = FALSE
                  /\ Len(ErrsOf(i)) > 0
                  /\ results[i].data = NullData(i)
            /\ Failed(i, "RewriteDelete") => ~Called(i, "DeleteNodes")

C5_Witness ==
    \E i \in Attempted :
        /\ fields[i].kind = "Delete"
        /\ Succeeded(i, "RewriteDelete")
        /\ Failed(i, "DeleteNodes")
        /\ results[i].succeeded = FALSE

\* C6: a mutation that is neither Add, Update nor Delete returns
\* succeeded=false and exactly one error, the fixed "Only add, delete and
\* update mutations are implemented", and calls no collaborator.
C6_UnsupportedKind ==
    \A i \in Attempted :
        fields[i].kind \notin {"Add", "Update", "Delete"} =>
            /\ results[i].succeeded = FALSE
            /\ Len(ErrsOf(i)) = 1
            /\ ErrsOf(i)[1].msg =
                  <<"Only add, delete and update mutations are implemented">>
            /\ CallsOf(i) = {}

C6_Witness ==
    \E i \in Attempted :
        /\ fields[i].kind = "NotSupported"
        /\ results[i].succeeded = FALSE
        /\ CallsOf(i) = {}

\* The backend writes issued for field i.
Executes(i) == { j \in CallsOf(i) : calls[j].op \in {"Mutate", "DeleteNodes"} }

ErrorOnly(i) ==
    /\ Len(ErrsOf(i)) > 0
    /\ inner[i].data = <<>>
    /\ results[i].data \in {<<>>, NullData(i)}

\* C7: in a serial batch the fields are resolved in order; every field
\* before a failed one succeeded, the failed field has an error-only result
\* and is the last one attempted; no collaborator is called for a field that
\* was not attempted and the backend write is called at most once per
\* attempted field; a field whose write took effect never stops the batch,
\* whatever its errors; results once computed are never changed.
C7_Inv ==
    /\ Len(results) = nextField - 1
    /\ Len(results) <= Len(fields)
    /\ \A i \in Attempted :
          /\ i < Len(results) => results[i].succeeded
          /\ ~results[i].succeeded => ErrorOnly(i)
          /\ Cardinality(Executes(i)) <= 1
          /\ (\E j \in Executes(i) : calls[j].err = Nil) =>
                /\ results[i].succeeded
                /\ i = Len(results) => ~stopped
    /\ stopped <=> (results # <<>> /\ ~results[Len(results)].succeeded)
    /\ \A j \in 1..Len(calls) : calls[j].field \in Attempted
    /\ (~stopped /\ nextField <= Len(fields)) => ENABLED ResolveNext
    /\ stopped => ~ENABLED ResolveNext

C7_SerialBatch ==
    /\ []C7_Inv
    /\ [][ /\ Len(results') >= Len(results)
           /\ \A i \in Attempted : results'[i] = results[i]
           /\ stopped => results' = results ]_vars

C7_Witness ==
    /\ Len(fields) = 3
    /\ Len(results) = 2
    /\ results[1].succeeded
    /\ Len(ErrsOf(1)) > 0
    /\ Failed(2, "Mutate")
    /\ ErrorOnly(2)
    /\ stopped
    /\ Cardinality(Executes(1) \cup Executes(2)) = 2
    /\ CallsOf(3) = {}

----------------------------------------------------------------------------
(* Properties of the CDC consumer *)

Offsets == 1..Len(topic)

Corrupt(off) == Unmarshal(topic[off]).err

BatchOf(off) == Unmarshal(topic[off]).kv

LogIdx == 1..Len(callLog)

\* C8: MarkMessage is called for a message only after every record of its
\* batch went to loader.Set, in one loader, and that loader's Finish returned;
\* whatever the state, crashes included, a marked message has had its whole
\* batch loaded and finalized, and no offset is committed that was not marked.
C8_NoPartialBatchCommit ==
    /\ \A off \in marked :
          /\ off \in Offsets
          /\ \E f \in finished : f.off = off /\ f.fed = BatchOf(off)
    /\ \A off \in 1..committed : off \in marked
    /\ cpc = "mark" =>
          /\ loader.fed = BatchOf(cur)
          /\ loader.applied = Len(loader.fed)
          /\ callLog[Len(callLog)].ev = "Finish"
    /\ \A p \in LogIdx :
          callLog[p].ev = "Mark" =>
             LET off == callLog[p].off
                 n   == Len(BatchOf(off))
             IN
             /\ p >= n + 3
             /\ callLog[p - 1].ev = "Finish"
             /\ callLog[p - 1].off = off
             /\ callLog[p - n - 2].ev = "NewLoader"
             /\ callLog[p - n - 2].off = off
             /\ callLog[p - 1].loader = callLog[p - n - 2].loader
             /\ \A k \in 1..n :
                   /\ callLog[p - n - 2 + k].ev = "Set"
                   /\ callLog[p - n - 2 + k].idx = k
                   /\ callLog[p - n - 2 + k].off = off
                   /\ callLog[p - n - 2 + k].loader = callLog[p - 1].loader

C8_Witness ==
    /\ 1 \in marked
    /\ 2 \notin marked
    /\ cur = 2
    /\ cpc = "idle"
    /\ Len(callLog) >= 2
    /\ callLog[Len(callLog)].ev = "Crash"
    /\ callLog[Len(callLog) - 1].ev = "Set"
    /\ callLog[Len(callLog) - 1].idx < Len(BatchOf(2))

\* C9: a message whose value does not unmarshal makes ConsumeClaim return
\* the error and end its loop; the message is never marked or committed, no
\* loader is opened for it and no record of it reaches a loader or storage,
\* the call processes no later message, and marks made before stay.
C9_Inv ==
    /\ \A off \in Offsets :
          Corrupt(off) =>
             /\ off \notin marked
             /\ committed < off
             /\ \A f \in finished : f.off # off
             /\ cur <= off
             /\ \A p \in LogIdx : callLog[p].off <= off
    /\ \A p \in LogIdx :
          /\ callLog[p].ev = "ReturnErr" =>
                /\ p = Len(callLog)
                /\ cpc = "idle"
                /\ Corrupt(callLog[p].off)
          /\ callLog[p].ev \in {"Unmarshal", "NewLoader", "Set", "Finish", "Mark"} =>
                ~Corrupt(callLog[p].off)

C9_CorruptStream ==
    /\ []C9_Inv
    /\ [][ /\ marked \subseteq marked'
           /\ (cpc = "recv" /\ cur <= Len(topic) /\ Corrupt(cur)) =>
                 /\ cpc' = "idle"
                 /\ marked' = marked
                 /\ store' = store
                 /\ nLoaders' = nLoaders
                 /\ finished' = finished ]_vars

C9_Witness ==
    /\ Len(topic) = 2
    /\ ~Corrupt(1)
    /\ Corrupt(2)
    /\ marked = {1}
    /\ cpc = "idle"
    /\ callLog[Len(callLog)] = Ev("ReturnErr", 2, 0, 0)
    /\ callLog[1].off = 1

LastWrite(kvs, k) ==
    LET W == { i \in 1..Len(kvs) : kvs[i].key = k } IN
    IF W = {} THEN 0 ELSE kvs[CHOOSE i \in W : \A j \in W : j <= i].val

\* C10: the records of a batch go to the loader in batch order, each once,
\* through a loader opened for that message alone; once the loader has
\* finished, every key the batch writes holds the value of the batch's last
\* record for that key.
C10_BatchOrder ==
    /\ cpc \in {"set", "mark"} =>
          /\ loader.fed = SubSeq(list, 1, setIdx - 1)
          /\ list = BatchOf(cur)
          /\ loader.id = nLoaders
    /\ cpc = "mark" =>
          /\ setIdx = Len(list) + 1
          /\ \A k \in Keys :
                (\E i \in 1..Len(list) : list[i].key = k) =>
                    store[k] = LastWrite(list, k)
    /\ \A f \in finished : f.fed = BatchOf(f.off)
    /\ \A p \in LogIdx :
          /\ callLog[p].ev = "NewLoader" =>
                /\ callLog[p].loader <= nLoaders
                /\ \A q \in LogIdx :
                      (q < p /\ callLog[q].ev \in {"NewLoader", "Set", "Finish"}) =>
                          /\ callLog[q].loader < callLog[p].loader
                          /\ callLog[q].off < callLog[p].off
          /\ callLog[p].ev = "Set" =>
                /\ p > 1
                /\ callLog[p - 1].off = callLog[p].off
                /\ callLog[p - 1].loader = callLog[p].loader
                /\ IF callLog[p].idx = 1
                   THEN callLog[p - 1].ev = "NewLoader"
                   ELSE /\ callLog[p - 1].ev = "Set"
                        /\ callLog[p - 1].idx = callLog[p].idx - 1
          /\ callLog[p].ev = "Finish" =>
                /\ p > 1
                /\ callLog[p - 1].ev \in {"NewLoader", "Set"}
                /\ callLog[p - 1].off = callLog[p].off
                /\ callLog[p - 1].loader = callLog[p].loader

C10_Witness ==
    /\ cpc = "mark"
    /\ cur = 2
    /\ list = <<KV("a", 1), KV("b", 1), KV("a", 2)>>
    /\ BatchOf(1) = <<KV("b", 3), KV("a", 3)>>
    /\ store = [a |-> 2, b |-> 1]
    /\ loader.id = 2

----------------------------------------------------------------------------
(* Properties of consumer and producer startup *)

AllFailed(tries) == \A i \in 1..Len(tries) : ~tries[i]

Created(tries) == tries # <<>> /\ tries[Len(tries)]

\* C11: in every consumer-group session, the first and every later one,
\* Setup signals the ready gate and returns without error or fault, so that
\* the session goes on to its claims.
C11_EverySetupSignalsReady ==
    /\ fault # "Setup"
    /\ dpc # "dead"

\* C11 for the first session only: its Setup closes the gate and returns.
C11_FirstSetupSignalsReady ==
    /\ nSetups <= 1
    /\ nSetups = 1 <=> ready = "closed"
    /\ dpc = "session" => ready = "closed"

\* C12: the driver loop never ends and never ends the process: after every
\* return of Consume, with an error or without, it calls Consume again.
C12_DriverLoopRunsForever ==
    /\ dpc \in {"none", "loop", "setup", "session"}
    /\ fault \in {"none", "NewConsumerGroup"}
    /\ (dpc = "loop" /\ nConsumes < MaxConsumes) => ENABLED DriverConsume
    /\ dpc = "setup" => ENABLED Setup
    /\ dpc # "none" => (fault = "none" /\ Created(sTries))

\* C13: with source brokers configured, setupKafkaSource returns only after
\* a Setup has signalled ready; it waits while the driver loop runs as a task
\* of its own, returns as soon as the gate is closed, and has not returned as
\* long as no Consume call has reached Setup.
C13_ReturnsOnlyWhenReady ==
    /\ (sourceBrokers # NoBrokers /\ spc = "done") =>
          /\ ready = "closed"
          /\ nSetups >= 1
          /\ dpc \in {"loop", "setup", "session", "dead"}
    /\ nSetups = 0 =>
          /\ ready = "open"
          /\ sourceBrokers # NoBrokers => spc # "done"
    /\ spc = "wait" => dpc \in {"loop", "setup", "session", "dead"}
    /\ (spc = "wait" /\ fault = "none") =>
          (ENABLED SourceAwaitReady <=> ready = "closed")

C13_Witness ==
    /\ sourceBrokers # NoBrokers
    /\ spc = "done"
    /\ dpc = "session"
    /\ nConsumes = 2
    /\ nSetups = 1
    /\ fault = "none"

\* C14: producer and consumer startup each make at most 10 construction
\* attempts and none after a successful one; whenever an attempt succeeds,
\* the tenth included, startup goes on to its steady state: the consumer
\* starts the driver loop, the producer subscribes to storage.
C14_BoundedRetry ==
    /\ Len(sTries) <= 10
    /\ Len(tTries) <= 10
    /\ \A i \in 1..(Len(sTries) - 1) : ~sTries[i]
    /\ \A i \in 1..(Len(tTries) - 1) : ~tTries[i]
    /\ Created(sTries) =>
          /\ spc \in {"construct", "wait", "done"}
          /\ spc = "construct" => ENABLED SourceAfterLoop
          /\ spc # "construct" => dpc # "none"
          /\ fault # "NewConsumerGroup"
    /\ Created(tTries) =>
          /\ tpc \in {"construct", "done"}
          /\ (tpc = "construct" /\ fault = "none") => ENABLED TargetAfterLoop
          /\ tpc = "done" => subscr \in {"running", "ended"}
    /\ (spc = "construct" /\ fault = "none" /\ Len(sTries) < 10 /\ ~Created(sTries)) =>
          ENABLED SourceConstruct
    /\ (tpc = "construct" /\ fault = "none" /\ Len(tTries) < 10 /\ ~Created(tTries)) =>
          ENABLED TargetConstruct

C14_Witness ==
    /\ Len(sTries) = 10
    /\ Len(tTries) = 10
    /\ sTries[10]
    /\ tTries[10]
    /\ dpc = "loop"
    /\ spc = "wait"
    /\ subscr = "running"
    /\ fault = "none"

\* C15: after 10 failed constructions the producer's startup returns
\* without subscribing and nothing is ever published, the process going on;
\* the consumer's startup panics, with no driver loop started and ready
\* never signalled.
C15_ExhaustionAsymmetric ==
    /\ (Len(tTries) = 10 /\ AllFailed(tTries)) =>
          /\ tpc \in {"construct", "done"}
          /\ (tpc = "construct" /\ fault = "none") => ENABLED TargetAfterLoop
          /\ subscr = "none"
          /\ cbLog = <<>>
          /\ sent = <<>>
    /\ fault \in {"none", "NewConsumerGroup", "Setup"}
    /\ (Len(sTries) = 10 /\ AllFailed(sTries)) =>
          /\ spc \in {"construct", "panic"}
          /\ spc = "construct" => ENABLED SourceAfterLoop
          /\ dpc = "none"
          /\ nConsumes = 0
          /\ ready = "open"
          /\ nSetups = 0
    /\ spc = "panic" <=> fault = "NewConsumerGroup"
    /\ fault = "NewConsumerGroup" => (Len(sTries) = 10 /\ AllFailed(sTries))
    /\ fault # "none" => ~ENABLED NextSetup

C15_Witness ==
    /\ Len(tTries) = 10
    /\ AllFailed(tTries)
    /\ tpc = "done"
    /\ Len(sTries) = 10
    /\ AllFailed(sTries)
    /\ spc = "panic"
    /\ fault = "NewConsumerGroup"

\* What cb must have handed to SendMessage for the batches in log.
RECURSIVE Published(_)
Published(log) ==
    IF log = <<>> THEN <<>>
    ELSE LET rest == Published(SubSeq(log, 1, Len(log) - 1))
             last == log[Len(log)]
         IN IF last.marshalErr THEN rest
            ELSE Append(rest, [topic |-> "kafkaTopic",
                               value |-> [n |-> Len(last.batch),
                                          recs |-> last.batch]])

\* C16: of the batches delivered to cb, one that fails to serialize is
\* dropped with nothing sent, and each other one is sent exactly once, as its
\* serialized form on the fixed topic, whether or not the send succeeds;
\* whatever failed before, the next batch is handled the same way.
C16_OneMessagePerBatch ==
    /\ sent = Published(cbLog)
    /\ \A i \in 1..Len(cbLog) : cbLog[i].marshalErr => ~cbLog[i].sendErr
    /\ (subscr = "running" /\ Len(cbLog) < MaxBatches) => ENABLED CallbackAny
    /\ cbLog # <<>> => (subscr \in {"running", "ended"} /\ Created(tTries))

C16_Witness ==
    /\ Len(cbLog) = 2
    /\ cbLog[1].marshalErr
    /\ cbLog[2].sendErr
    /\ cbLog[2].batch = <<KV("b", 3), KV("a", 3)>>
    /\ Len(sent) = 1
    /\ subscr = "running"

\* C17: with no source brokers setupKafkaSource returns at once: no client
\* is constructed, no driver loop started, ready is not waited for; with no
\* target brokers setupKafkaTarget returns at once: no producer is
\* constructed, nothing subscribes; either holds whatever the other setting.
C17_EmptyListDisables ==
    /\ sourceBrokers = NoBrokers =>
          /\ spc \in {"start", "done"}
          /\ spc = "start" => ENABLED SourceStart
          /\ sTries = <<>>
          /\ dpc = "none"
          /\ nConsumes = 0
          /\ nSetups = 0
          /\ ready = "open"
    /\ targetBrokers = NoBrokers =>
          /\ tpc \in {"start", "done"}
          /\ (tpc = "start" /\ fault = "none") => ENABLED TargetStart
          /\ tTries = <<>>
          /\ subscr = "none"
          /\ cbLog = <<>>
          /\ sent = <<>>

C17_Witness ==
    /\ sourceBrokers = NoBrokers
    /\ spc = "done"
    /\ targetBrokers # NoBrokers
    /\ subscr = "running"
    /\ sent # <<>>

----------------------------------------------------------------------------
(* Redelivery *)

\* Storage after the batches of offsets 1..n were each loaded once, in order.
RECURSIVE LoadedOnce(_)
LoadedOnce(n) ==
    IF n = 0 THEN [k \in Keys |-> 0]
    ELSE ApplyFrom(LoadedOnce(n - 1), BatchOf(n), 1, Len(BatchOf(n)))

\* C18: a message whose batch was loaded but which was not marked when the
\* consumer died is delivered again (no offset is committed or passed that
\* was not marked, and none is marked before its batch was loaded whole);
\* loading a batch again leaves storage as the first load left it, and once
\* the last message is loaded storage holds what loading every batch exactly
\* once would have left, however many times batches were loaded.
C18_RedeliveryHarmless ==
    /\ cpc = "mark" => ApplyFrom(store, list, 1, Len(list)) = store
    /\ ((cpc = "mark" /\ cur = Len(topic)) \/ committed = Len(topic)) =>
          store = LoadedOnce(Len(topic))
    /\ \A f \in finished : f.off \notin marked => committed < f.off
    /\ cpc # "idle" => \A off \in 1..(cur - 1) : off \in marked
    /\ \A off \in 1..committed :
          \E f \in finished : f.off = off /\ f.fed = BatchOf(off)
    /\ (cpc = "idle" /\ session < MaxSessions) => ENABLED StartClaim

C18_Witness ==
    /\ cpc = "mark"
    /\ cur = 2
    /\ Len(topic) = 2
    /\ cur \notin marked
    /\ \E f, g \in finished : f.off = cur /\ g.off = cur /\ f.id # g.id
    /\ BatchOf(1) = <<KV("a", 1), KV("b", 1), KV("a", 2)>>
    /\ BatchOf(2) = <<KV("b", 3), KV("a", 3)>>
    /\ store = LoadedOnce(2)

----------------------------------------------------------------------------
(* Stage order and the succeeded flag *)

Stages == <<"Rewrite", "Mutate", "FromMutationResult", "Query", "completeDgraphResult">>

\* The calls field i made, in the order it made them.
FieldCalls(i) == SelectSeq(calls, LAMBDA c : c.field = i)

\* The backend write of field i.
WriteOp(i) == IF fields[i].kind = "Delete" THEN "DeleteNodes" ELSE "Mutate"

\* C19: the calls of an Add or Update are Rewrite, Mutate,
\* FromMutationResult, Query, completion in this order, each at most once, up
\* to and including the first stage that returned an error: no stage is called
\* unless the one before it returned success, and none is left out after it.
C19_StagesInOrder ==
    \A i \in Attempted :
        IsAddOrUpdate(i) =>
            LET cs == FieldCalls(i) IN
            /\ Len(cs) \in 1..5
            /\ \A j \in 1..Len(cs) :
                  /\ cs[j].op = Stages[j]
                  /\ j < Len(cs) => cs[j].err = Nil
            /\ Len(cs) < 5 => cs[Len(cs)].err # Nil
            /\ \A j \in 1..5 : TimesCalled(i, Stages[j]) <= 1
            /\ Called(i, "Mutate") => Succeeded(i, "Rewrite")
            /\ Called(i, "FromMutationResult") => Succeeded(i, "Mutate")
            /\ Called(i, "Query") => Succeeded(i, "FromMutationResult")
            /\ Called(i, "completeDgraphResult") => Succeeded(i, "Query")

C19_Witness ==
    \E i \in Attempted :
        /\ fields[i].kind = "Update"
        /\ Len(FieldCalls(i)) = 4
        /\ FieldCalls(i)[4].op = "Query"
        /\ FieldCalls(i)[4].err # Nil
        /\ Succeeded(i, "FromMutationResult")

\* C20: for Add, Update and Delete resolve returns succeeded=true exactly
\* when the backend write (Mutate, DeleteNodes for a Delete) was called and
\* returned no error; the write is called at most once, and the flag resolve
\* returns is the flag its sub-pipeline returned.
C20_FlagIsWriteOutcome ==
    \A i \in Attempted :
        fields[i].kind \in {"Add", "Update", "Delete"} =>
            /\ results[i].succeeded <=> Succeeded(i, WriteOp(i))
            /\ TimesCalled(i, WriteOp(i)) <= 1
            /\ results[i].succeeded = inner[i].succeeded
            /\ ~Called(i, WriteOp(i)) => ~results[i].succeeded

C20_Witness ==
    \E i \in Attempted :
        /\ fields[i].kind = "Add"
        /\ Succeeded(i, "Mutate")
        /\ Failed(i, "Query")
        /\ Len(ErrsOf(i)) > 0
        /\ results[i].data # inner[i].data
        /\ results[i].succeeded

====
